---- MODULE Spec2Model ----
(***************************************************************************)
(* A model of python-odata's query executor (odata/query.py), entity       *)
(* mutation state (odata/state.py) and transport (odata/connection.py).    *)
(*                                                                         *)
(* Python values are modelled as follows.  A string is a TLA+ string.      *)
(* An optional scalar (None or a value) is the empty sequence <<>> or the  *)
(* one-element sequence <<v>>.  A Python list object is a cell of the heap *)
(* `lists`, named by its index, so that two names for one list object      *)
(* (aliasing) can be told from two equal lists.                            *)
(***************************************************************************)
EXTENDS Integers, Sequences, FiniteSets, TLC

\* ------------------------------------------------------------------ bounds
\* Query objects that exist at once (the root query included).
MaxQueries == 3
\* Terminal operations (all, first, one, get) started in one run.
MaxCalls == 2
\* GET requests one iteration may issue before the server ends the paging.
MaxPages == 2
\* Related entities in one collection navigation property.
MaxMembers == 2
\* ODataConnection instances constructed in one run.
MaxConnections == 3

VARIABLES
    lists,      \* heap of Python list objects: index -> sequence of strings
    queries,    \* the Query objects: index -> options and compound_expand
    entity,     \* the entity class the queries are for
    call,       \* the operation in progress or last finished on a Query
    ncalls,     \* terminal operations started so far
    io,         \* the last transport operation: its response and its outcome
    ents,       \* the EntityState objects: index -> class, data, dirty, nav_cache
    marked,     \* history: the names passed to set_property_dirty since reset
    out,        \* the last operation on an EntityState and what it returned
    base_headers,   \* the class attribute ODataConnection.base_headers
    conns,      \* the ODataConnection instances constructed so far
    last_request    \* the headers of the last request and who made it

qvars == <<lists, queries, entity, call, ncalls>>

svars == <<ents, marked, out>>

hvars == <<base_headers, conns, last_request>>

vars == <<lists, queries, entity, call, ncalls, io, ents, marked, out,
          base_headers, conns, last_request>>

\* ODataConnection.base_headers as the class body defines it.
BaseHeaders ==
    [h \in {"Accept", "OData-Version", "User-Agent"} |->
       CASE h = "Accept" -> "application/json"
         [] h = "OData-Version" -> "4.0"
         [] h = "User-Agent" -> "python-odata"]

\* No connection has been constructed and no request made.
NoConnections == base_headers = BaseHeaders /\ conns = <<>> /\ last_request = <<>>

\* ------------------------------------------------------------ pure helpers
None == <<>>
Some(v) == <<v>>

\* sep.join(s) for a sequence of strings s
RECURSIVE Join(_, _)
Join(s, sep) ==
    IF Len(s) = 0 THEN ""
    ELSE IF Len(s) = 1 THEN s[1]
    ELSE s[1] \o sep \o Join(Tail(s), sep)

\* ------------------------------------------------------------------ Query
\* self.options.get(name, []) for one of the four list-valued options;
\* 0 stands for a key that is not in the options dict.
SeqGet(h, o, name) == IF o[name] = 0 THEN <<>> ELSE h[o[name]]

\* Query.__init__ with options=None: an empty options dict.
QueryInitObject(compound) ==
    [top |-> None, skip |-> None, apply |-> None,
     select |-> 0, filter |-> 0, expand |-> 0, orderby |-> 0,
     compound_expand |-> compound]

\* A faulty variant of new_query that forgets the [:] slices: the new query's
\* options name the receiver's own list objects.
new_query_shared(h, self) ==
    LET n == Len(h) IN
    [lists |-> h \o << <<>>, <<>>, <<>>, <<>> >>,
     q |-> [top |-> self.top, skip |-> self.skip, apply |-> self.apply,
            select  |-> IF self.select  = 0 THEN n + 1 ELSE self.select,
            filter  |-> IF self.filter  = 0 THEN n + 2 ELSE self.filter,
            expand  |-> IF self.expand  = 0 THEN n + 3 ELSE self.expand,
            orderby |-> IF self.orderby = 0 THEN n + 4 ELSE self.orderby,
            compound_expand |-> TRUE]]

\* Query._new_query: a new Query whose options hold the receiver's scalars and
\* fresh copies of its four lists.  compound_expand is not passed on, so the
\* new query has the constructor's default, True.
new_query(h, self) ==
    LET n == Len(h) IN
    [lists |-> h \o << SeqGet(h, self, "select"), SeqGet(h, self, "filter"),
                       SeqGet(h, self, "expand"), SeqGet(h, self, "orderby") >>,
     q |-> [top |-> self.top, skip |-> self.skip, apply |-> self.apply,
            select |-> n + 1, filter |-> n + 2,
            expand |-> n + 3, orderby |-> n + 4,
            compound_expand |-> TRUE]]

\* Query._get_or_create_option: the list object under `name`, created empty
\* (and stored in the options) when the key is missing.
get_or_create_option(h, o, name) ==
    IF o[name] = 0
    THEN [lists |-> Append(h, <<>>), q |-> [o EXCEPT ![name] = Len(h) + 1],
          id |-> Len(h) + 1]
    ELSE [lists |-> h, q |-> o, id |-> o[name]]

\* Query.__compound_expand_name on a name given as its "/"-separated segments.
RECURSIVE NestExpand(_)
NestExpand(segs) ==
    IF Len(segs) = 1 THEN segs[1]
    ELSE segs[1] \o "($expand=" \o NestExpand(Tail(segs)) \o ")"

compound_expand_name(self, segs) ==
    IF self.compound_expand THEN NestExpand(segs) ELSE Join(segs, "/")

\* Query._get_options: the option map sent with the first request.
get_options(h, o) ==
    LET sel == SeqGet(h, o, "select")
        fil == SeqGet(h, o, "filter")
        exd == SeqGet(h, o, "expand")
        ord == SeqGet(h, o, "orderby")
        keys == (IF o.top # None THEN {"$top"} ELSE {})
                \cup (IF o.skip # None THEN {"$skip"} ELSE {})
                \cup (IF o.apply # None THEN {"$apply"} ELSE {})
                \cup (IF Len(sel) > 0 THEN {"$select"} ELSE {})
                \cup (IF Len(fil) > 0 THEN {"$filter"} ELSE {})
                \cup (IF Len(exd) > 0 THEN {"$expand"} ELSE {})
                \cup (IF Len(ord) > 0 THEN {"$orderby"} ELSE {})
    IN [k \in keys |->
          CASE k = "$top" -> o.top[1]
            [] k = "$skip" -> o.skip[1]
            [] k = "$apply" -> o.apply[1]
            [] k = "$select" -> Join(sel, ",")
            [] k = "$filter" ->
                 Join([i \in 1..Len(fil) |-> "(" \o fil[i] \o ")"], " and ")
            [] k = "$expand" -> Join(exd, ",")
            [] k = "$orderby" -> Join(ord, ",")]

\* The empty option map a followed next-page link is requested with.
NoOptions == [k \in {} |-> 0]

\* ------------------------------------------------- inputs of the query model
EntityClasses ==
    {[pks |-> <<"Id">>, singleton |-> FALSE],
     [pks |-> <<"K1", "K2">>, singleton |-> TRUE]}

SelectArgs == {<<"Name">>}
FilterArgs == {"Name eq 'Foo'", "Age gt 3"}
ExpandArgs == {<<"A", "B", "C">>}
OrderByArgs == {<<"Name asc">>}
LimitArgs == {1, 5}
OffsetArgs == {2}
ApplyArgs == {"aggregate(Age with sum as Total)"}
KeyValues == {"5"}

\* What ODataConnection.execute_get can do with one GET: raise
\* ODataConnectionError (transport), raise ODataError (non-2xx, or a 2xx
\* with an unsupported content-type), return None (HTTP 204), or return the
\* parsed JSON body.  A body is described by what __iter__ reads of it.
PageRows == {<<>>, <<"x">>, <<"y">>, <<"x", "y">>}
NextLinks == {"", "L"}      \* "" : the body has no @odata.nextLink
Responses ==
    {[kind |-> k, hasValue |-> FALSE, rows |-> <<>>, next |-> ""] :
        k \in {"ODataConnectionError", "ODataError", "None"}}
    \cup {[kind |-> "json", hasValue |-> FALSE, rows |-> <<"x">>, next |-> ""]}
    \cup {[kind |-> "json", hasValue |-> TRUE, rows |-> r, next |-> l] :
            r \in PageRows, l \in NextLinks}

\* The operations that build a query.
Builders == {"select", "filter", "expand", "order_by", "limit", "offset", "apply"}
Terminals == {"all", "first", "one", "get"}

IdleCall ==
    [op |-> "init", self |-> 1, ret |-> 1, phase |-> "done",
     url |-> "", options |-> NoOptions, requests |-> <<>>, responses |-> <<>>,
     rows |-> <<>>, outcome |-> "ok", result |-> <<>>,
     oldtop |-> None, oldfilters |-> 0, pre |-> <<>>]

QueryInit ==
    /\ lists = <<>>
    /\ \E c \in BOOLEAN : queries = <<QueryInitObject(c)>>
    /\ entity = [pks |-> <<"Id">>, singleton |-> FALSE]
    /\ call = IdleCall
    /\ ncalls = 0
    /\ io = <<>>
    /\ NoConnections
    /\ ents = <<>>
    /\ marked = {}
    /\ out = <<>>

\* ------------------------------------------------------- builder operations
\* Each builder as a function of the heap h and the Query objects qs: the
\* heap and the objects after the call on qs[s]; the returned query is the
\* last of the objects.

\* Query.select(*values)
select(h, qs, s, values) ==
    LET r == new_query(h, qs[s])
        g == get_or_create_option(r.lists, r.q, "select")
    IN [lists |-> [g.lists EXCEPT ![g.id] = @ \o values],
        queries |-> Append(qs, g.q)]

\* Query.filter(value)
filter(h, qs, s, value) ==
    LET r == new_query(h, qs[s])
        g == get_or_create_option(r.lists, r.q, "filter")
    IN [lists |-> [g.lists EXCEPT ![g.id] = Append(@, value)],
        queries |-> Append(qs, g.q)]

\* Query.expand(*values), for one value: the name is rendered by the
\* receiver's __compound_expand_name.
expand(h, qs, s, segs) ==
    LET r == new_query(h, qs[s])
        g == get_or_create_option(r.lists, r.q, "expand")
    IN [lists |-> [g.lists EXCEPT
                     ![g.id] = Append(@, compound_expand_name(qs[s], segs))],
        queries |-> Append(qs, g.q)]

\* Query.order_by(*values)
order_by(h, qs, s, values) ==
    LET r == new_query(h, qs[s])
        g == get_or_create_option(r.lists, r.q, "orderby")
    IN [lists |-> [g.lists EXCEPT ![g.id] = @ \o values],
        queries |-> Append(qs, g.q)]

\* Query.limit(value)
limit(h, qs, s, value) ==
    LET r == new_query(h, qs[s])
    IN [lists |-> r.lists, queries |-> Append(qs, [r.q EXCEPT !.top = Some(value)])]

\* Query.offset(value)
offset(h, qs, s, value) ==
    LET r == new_query(h, qs[s])
    IN [lists |-> r.lists, queries |-> Append(qs, [r.q EXCEPT !.skip = Some(value)])]

\* Query.apply(value)
apply(h, qs, s, value) ==
    LET r == new_query(h, qs[s])
    IN [lists |-> r.lists, queries |-> Append(qs, [r.q EXCEPT !.apply = Some(value)])]

BuilderCall(op, s) ==
    [IdleCall EXCEPT !.op = op, !.self = s, !.ret = Len(queries) + 1]

CanBuild(s) ==
    /\ call.phase = "done"
    /\ s \in 1..Len(queries)
    /\ Len(queries) < MaxQueries

Built(r, op, s) ==
    /\ lists' = r.lists
    /\ queries' = r.queries
    /\ call' = BuilderCall(op, s)
    /\ UNCHANGED <<entity, ncalls, io, svars, hvars>>

Select(s, v) == CanBuild(s) /\ Built(select(lists, queries, s, v), "select", s)

Filter(s, v) == CanBuild(s) /\ Built(filter(lists, queries, s, v), "filter", s)

Expand(s, v) == CanBuild(s) /\ Built(expand(lists, queries, s, v), "expand", s)

OrderBy(s, v) == CanBuild(s) /\ Built(order_by(lists, queries, s, v), "order_by", s)

Limit(s, v) == CanBuild(s) /\ Built(limit(lists, queries, s, v), "limit", s)

Offset(s, v) == CanBuild(s) /\ Built(offset(lists, queries, s, v), "offset", s)

Apply(s, v) == CanBuild(s) /\ Built(apply(lists, queries, s, v), "apply", s)

BuilderNext ==
    \/ \E s \in 1..Len(queries), v \in SelectArgs : Select(s, v)
    \/ \E s \in 1..Len(queries), v \in FilterArgs : Filter(s, v)
    \/ \E s \in 1..Len(queries), v \in ExpandArgs : Expand(s, v)
    \/ \E s \in 1..Len(queries), v \in OrderByArgs : OrderBy(s, v)
    \/ \E s \in 1..Len(queries), v \in LimitArgs : Limit(s, v)
    \/ \E s \in 1..Len(queries), v \in OffsetArgs : Offset(s, v)
    \/ \E s \in 1..Len(queries), v \in ApplyArgs : Apply(s, v)

\* The builder calls on a fresh query and on the queries derived from it.
BuilderSpec == QueryInit /\ [][BuilderNext]_vars

\* ------------------------------------------------------ terminal operations
\* What a caller can read of a query's options: the scalars as .get(name)
\* gives them and the contents of the four lists.
OptionsView(h, o) ==
    [top |-> o.top, skip |-> o.skip, apply |-> o.apply,
     select |-> SeqGet(h, o, "select"), filter |-> SeqGet(h, o, "filter"),
     expand |-> SeqGet(h, o, "expand"), orderby |-> SeqGet(h, o, "orderby")]

\* A faulty variant of follows that follows a next-page link whatever $top is.
follows_always(resp, options) == resp.next # ""

\* Query.__iter__, the test that decides whether the next page is fetched.
follows(resp, options) == resp.next # "" /\ "$top" \notin DOMAIN options

\* One pass of the loop of Query.__iter__ with the outcome `resp` of its
\* execute_get: the call record after the pass, its phase "iterating" (the
\* loop goes on), "return" (the generator is exhausted) or "raise".
iter_step(c, resp, singleton) ==
    LET sent == [c EXCEPT
                   !.requests = Append(@, [url |-> c.url, params |-> c.options]),
                   !.responses = Append(@, resp)]
    IN IF resp.kind \in {"ODataConnectionError", "ODataError"}
         THEN [sent EXCEPT !.phase = "raise", !.outcome = resp.kind]
       ELSE IF resp.kind = "None"
         \* execute_get returned None: 'value' in data raises TypeError
         THEN [sent EXCEPT !.phase = "raise", !.outcome = "TypeError"]
       ELSE IF resp.hasValue
         THEN LET got == [sent EXCEPT !.rows = @ \o resp.rows]
              IN IF follows(resp, c.options)
                   THEN [got EXCEPT !.url = resp.next, !.options = NoOptions]
                   ELSE [got EXCEPT !.phase = "return"]
       ELSE IF singleton
         THEN [sent EXCEPT !.rows = Append(@, resp.rows[1]), !.phase = "return"]
       ELSE [sent EXCEPT !.phase = "return"]

\* The rest of all / first / one / get once list(iter(self)) has returned or
\* raised: the receiver's options and the finished call.  An exception of
\* the iteration leaves the method at once, before its restoring assignment.
finish(c, o) ==
    LET first == IF Len(c.rows) > 0 THEN <<c.rows[1]>> ELSE <<>>
        done == [c EXCEPT !.phase = "done"]
    IN IF c.phase = "raise" THEN [q |-> o, call |-> done]
       ELSE CASE c.op = "all" ->
                   [q |-> o, call |-> [done EXCEPT !.result = c.rows]]
              [] c.op = "first" ->
                   [q |-> [o EXCEPT !.top = c.oldtop],
                    call |-> [done EXCEPT !.result = first]]
              [] c.op = "one" ->
                   [q |-> [o EXCEPT !.top = c.oldtop],
                    call |-> IF Len(c.rows) = 0
                               THEN [done EXCEPT !.outcome = "NoResultsFound"]
                             ELSE IF Len(c.rows) > 1
                               THEN [done EXCEPT !.outcome = "MultipleResultsFound"]
                             ELSE [done EXCEPT !.result = first]]
              [] c.op = "get" ->
                   [q |-> [o EXCEPT !.filter = c.oldfilters],
                    call |-> IF Len(c.rows) > 0
                               THEN [done EXCEPT !.result = first]
                               ELSE [done EXCEPT !.outcome = "NoResultsFound"]]

CanCall(s) ==
    /\ call.phase = "done"
    /\ s \in 1..Len(queries)
    /\ ncalls < MaxCalls

\* The call record as list(iter(self)) starts on query object o of heap h.
Started(op, s, h, o) ==
    [IdleCall EXCEPT !.op = op, !.self = s, !.ret = s, !.phase = "iterating",
                     !.url = "Collection", !.options = get_options(h, o),
                     !.oldtop = queries[s].top,
                     !.pre = <<OptionsView(lists, queries[s])>>]

\* Query.all, up to its first request.
StartAll(s) ==
    /\ CanCall(s)
    /\ call' = Started("all", s, lists, queries[s])
    /\ ncalls' = ncalls + 1
    /\ UNCHANGED <<lists, queries, entity, io, svars, hvars>>

\* Query.first, up to its first request: $top is forced to 1.
StartFirst(s) ==
    /\ CanCall(s)
    /\ LET o == [queries[s] EXCEPT !.top = Some(1)]
       IN /\ queries' = [queries EXCEPT ![s] = o]
          /\ call' = Started("first", s, lists, o)
    /\ ncalls' = ncalls + 1
    /\ UNCHANGED <<lists, entity, io, svars, hvars>>

\* Query.one, up to its first request: $top is forced to 1.
StartOne(s) ==
    /\ CanCall(s)
    /\ LET o == [queries[s] EXCEPT !.top = Some(1)]
       IN /\ queries' = [queries EXCEPT ![s] = o]
          /\ call' = Started("one", s, lists, o)
    /\ ncalls' = ncalls + 1
    /\ UNCHANGED <<lists, entity, io, svars, hvars>>

\* The arguments of get: one positional key value, or a value by name for
\* every primary key of the entity.
KeyNames == {entity.pks[i] : i \in 1..Len(entity.pks)}
GetArgs ==
    {[pk |-> Some(v), composite_keys |-> [n \in {} |-> ""]] : v \in KeyValues}
    \cup {[pk |-> None, composite_keys |-> f] : f \in [KeyNames -> KeyValues]}

\* prop == value, as str() renders the comparison
KeyEq(name, value) == name \o " eq " \o value

\* The temporary filter list of Query.get.
tempfilters(pks, arg) ==
    IF arg.pk # None
      THEN <<KeyEq(pks[1], arg.pk[1])>>
      ELSE [i \in 1..Len(pks) |-> KeyEq(pks[i], arg.composite_keys[pks[i]])]

\* Query.get, up to its first request: the filters are swapped for the key
\* predicates.
StartGet(s, arg) ==
    /\ CanCall(s)
    /\ arg \in GetArgs
    /\ LET g == get_or_create_option(lists, queries[s], "filter")
           h == Append(g.lists, tempfilters(entity.pks, arg))
           o == [g.q EXCEPT !.filter = Len(h)]
       IN /\ lists' = h
          /\ queries' = [queries EXCEPT ![s] = o]
          /\ call' = [Started("get", s, h, o) EXCEPT !.oldfilters = g.id]
    /\ ncalls' = ncalls + 1
    /\ UNCHANGED <<entity, io, svars, hvars>>

\* One GET of the running iteration and what follows it without a further
\* request: the next pass of the loop or the end of the terminal operation.
Fetch(resp) ==
    /\ call.phase = "iterating"
    /\ (Len(call.requests) + 1 >= MaxPages) => resp.next = ""
    /\ LET c == iter_step(call, resp, entity.singleton)
           f == finish(c, queries[call.self])
       IN IF c.phase = "iterating"
            THEN call' = c /\ UNCHANGED queries
            ELSE call' = f.call /\ queries' = [queries EXCEPT ![call.self] = f.q]
    /\ UNCHANGED <<lists, entity, ncalls, io, svars, hvars>>

\* The queries the terminal operations are run on: a fresh query and queries
\* built from it by the builder calls above.
Root == [lists |-> <<>>, queries |-> <<QueryInitObject(TRUE)>>]
Limited(n) == limit(Root.lists, Root.queries, 1, n)
Filtered == filter(Root.lists, Root.queries, 1, "Name eq 'Foo'")
FilteredLimited == limit(Filtered.lists, Filtered.queries, 2, 5)
FilteredTwice == filter(Filtered.lists, Filtered.queries, 2, "Age gt 3")
BuiltQueries ==
    {Root, Limited(1), Limited(5), Filtered, FilteredLimited, FilteredTwice}

ExecInit ==
    /\ \E b \in BuiltQueries : lists = b.lists /\ queries = b.queries
    /\ entity \in EntityClasses
    /\ call = IdleCall
    /\ ncalls = 0
    /\ io = <<>>
    /\ NoConnections
    /\ ents = <<>>
    /\ marked = {}
    /\ out = <<>>

ExecNext ==
    \/ \E s \in 1..Len(queries) : StartAll(s)
    \/ \E s \in 1..Len(queries) : StartFirst(s)
    \/ \E s \in 1..Len(queries) : StartOne(s)
    \/ \E s \in 1..Len(queries), a \in GetArgs : StartGet(s, a)
    \/ \E r \in Responses : Fetch(r)

\* The terminal operations on built queries.
ExecSpec == ExecInit /\ [][ExecNext]_vars

\* ------------------------------------------------------ claims on the query
\* C1: a builder call (select, filter, expand, order_by, limit, offset,
\* apply) leaves the options of every query that existed before it, its
\* receiver included, as they were, and returns a query object that is not
\* its receiver; so no chain of builder calls changes the query it started
\* from.
C1_BuildersLeaveReceiver ==
    [][call'.op \in Builders =>
         /\ Len(queries') = Len(queries) + 1
         /\ call'.ret = Len(queries') /\ call'.ret # call'.self
         /\ \A q \in 1..Len(queries) :
               OptionsView(lists', queries'[q]) = OptionsView(lists, queries[q])]_vars

\* A query derived from a derived query: filter on the result of filter.
C1_Witness ==
    /\ Len(queries) = 3
    /\ call.op = "filter" /\ call.self = 2 /\ call.ret = 3
    /\ Len(SeqGet(lists, queries[2], "filter")) = 1
    /\ Len(SeqGet(lists, queries[3], "filter")) = 2

PageX == [kind |-> "json", hasValue |-> TRUE, rows |-> <<"x">>, next |-> "L"]
PageY == [kind |-> "json", hasValue |-> TRUE, rows |-> <<"y">>, next |-> ""]

\* C2: in an iteration every request but the last was answered by a page
\* with a value array; after such a page the next-page link is followed, with
\* an empty option map, if and only if the page has @odata.nextLink and the
\* query has no $top; for the responses [PageX, PageY] all() issues two GETs
\* and returns [x, y] without $top, and one GET and [x] with $top = 1.
C2_NextLinkFollowedIffNoTop ==
    call.op \in Terminals =>
      LET n == Len(call.responses)
          topSent == "$top" \in DOMAIN call.requests[1].params
          q == queries[call.self]
      IN /\ Len(call.requests) = n
         /\ (n > 0 /\ call.op \in {"all", "get"}) => (topSent <=> q.top # None)
         /\ (n > 0 /\ call.op \in {"first", "one"}) => topSent
         /\ \A i \in 1..n :
              LET r == call.responses[i]
                  followed == i < n \/ call.phase = "iterating"
              IN /\ followed => (r.kind = "json" /\ r.hasValue)
                 /\ (r.kind = "json" /\ r.hasValue) =>
                       (followed <=> (r.next # "" /\ ~topSent))
         /\ \A i \in 2..n :
              /\ call.requests[i].params = NoOptions
              /\ call.requests[i].url = call.responses[i - 1].next
         /\ (call.op = "all" /\ call.phase = "done" /\ n > 0
               /\ call.responses[1] = PageX) =>
              IF q.top = None
                THEN n >= 2 /\ (call.responses = <<PageX, PageY>> =>
                                  call.outcome = "ok" /\ call.result = <<"x", "y">>)
                ELSE n = 1 /\ call.outcome = "ok" /\ call.result = <<"x">>

\* all() on a query without $top, answered by [PageX, PageY].
C2_Witness ==
    /\ call.op = "all" /\ call.phase = "done"
    /\ queries[call.self].top = None
    /\ call.responses = <<PageX, PageY>>
    /\ Len(call.requests) = 2
    /\ call.result = <<"x", "y">>

\* The outcomes of a fetch that failed inside list(iter(self)).
FetchErrors == {"ODataConnectionError", "ODataError", "TypeError"}

\* C3: when one() has finished, by returning or by raising anything, the
\* query's $top is what it was before the call; and unless the fetch failed,
\* zero results raise NoResultsFound, two or more raise
\* MultipleResultsFound, and exactly one is returned.
C3_OneRestoresTop ==
    (call.op = "one" /\ call.phase = "done") =>
      /\ queries[call.self].top = call.pre[1].top
      /\ call.outcome \notin FetchErrors =>
            /\ Len(call.rows) = 0 => call.outcome = "NoResultsFound"
            /\ Len(call.rows) > 1 => call.outcome = "MultipleResultsFound"
            /\ Len(call.rows) = 1 =>
                  call.outcome = "ok" /\ call.result = <<call.rows[1]>>

\* C4: get(pk) on an entity with one primary key sends a $filter that is the
\* key predicate alone, and when get has finished, by returning or by
\* raising anything, the query's $filter sequence is what it was before the
\* call.
C4_GetRestoresFilters ==
    (call.op = "get" /\ call.phase = "done") =>
      /\ Len(entity.pks) = 1 =>
            call.requests[1].params["$filter"] = "(Id eq 5)"
      /\ SeqGet(lists, queries[call.self], "filter") = call.pre[1].filter

\* -------------------------------------------------------------- transport
\* A JSON value, tagged by its type: null, a string, an object (a function
\* from its keys) or a list.
JNull == [t |-> "null"]
JStr(x) == [t |-> "str", v |-> x]
JObj(f) == [t |-> "obj", v |-> f]
JList(x) == [t |-> "list", v |-> x]

\* key in obj
Has(o, k) == k \in DOMAIN o.v
\* obj.get(key, default)
GetOr(o, k, default) == IF Has(o, k) THEN o.v[k] ELSE default
\* Python's truth value of a JSON value
Truthy(x) ==
    CASE x.t = "null" -> FALSE
      [] x.t = "str" -> x.v # ""
      [] x.t = "obj" -> DOMAIN x.v # {}
      [] x.t = "list" -> Len(x.v) > 0
\* x or default
Or(x, default) == IF Truthy(x) THEN x ELSE default
\* str(x) of a null or a string, as an f-string renders it
Str(x) == IF x.t = "null" THEN "None" ELSE x.v

\* An object given by its keys and a function on them.
Obj(keys, f) == JObj([k \in keys |-> f[k]])

\* A content-type header is the sequence of its parts, <<>> for a missing
\* header; 'x' in response_ct holds when x is one of the parts.
InCT(x, ct) == \E i \in 1..Len(ct) : ct[i] = x

DefaultCode == JStr("None")
DefaultMessage == JStr("Server did not supply any error messages")
DefaultDetail == JStr("None")

\* requests' Response.raise_for_status raises for the 4xx and 5xx statuses.
raise_for_status(status) == 400 <= status /\ status < 600

NoError ==
    [kind |-> "none", status_code |-> JNull, code |-> JNull,
     message |-> JNull, detailed_message |-> JNull]

\* An exception other than ODataError that leaves _handle_odata_error.
Crash(kind) == [NoError EXCEPT !.kind = kind]

\* _handle_odata_error, the branch of an application/json body: the error
\* record, or the exception of a .get on a value that is no object.
odata_json_error(errordata, base) ==
    IF ~Has(errordata, "error") THEN base
    ELSE LET odata_error == errordata.v["error"] IN
      IF odata_error.t # "obj" THEN Crash("AttributeError")
      ELSE
        LET b1 == [base EXCEPT
                     !.code = Or(GetOr(odata_error, "code", JNull), base.code),
                     !.message = Or(GetOr(odata_error, "message", JNull), base.message)]
        IN IF Has(odata_error, "innererror")
             THEN LET ie == odata_error.v["innererror"] IN
                  IF ie.t # "obj" THEN Crash("AttributeError")
                  ELSE [b1 EXCEPT !.detailed_message =
                           Or(GetOr(ie, "message", JNull), base.detailed_message)]
           ELSE IF /\ Has(odata_error, "details")
                   /\ odata_error.v["details"].t = "list"
                   /\ Len(odata_error.v["details"].v) > 0
             THEN LET details == odata_error.v["details"].v[1] IN
                  IF details.t # "obj" THEN Crash("AttributeError")
                  ELSE LET detail_code == GetOr(details, "code", JStr(""))
                           detail_message ==
                               GetOr(details, "message", base.detailed_message)
                       IN [b1 EXCEPT !.detailed_message =
                             IF Truthy(detail_code)
                               THEN JStr("(" \o Str(detail_code) \o "): "
                                           \o Str(detail_message))
                               ELSE detail_message]
           ELSE b1

\* The loop over ["innerexception", "innerException"].
RECURSIVE inner_exception(_, _, _)
inner_exception(odata_exception, candidates, b) ==
    IF b.kind # "ODataError" \/ Len(candidates) = 0 THEN b
    ELSE LET candidate == candidates[1]
             rest == Tail(candidates)
         IN IF ~Has(odata_exception, candidate)
              THEN inner_exception(odata_exception, rest, b)
            ELSE LET ie == odata_exception.v[candidate] IN
              IF ie.t # "obj" THEN Crash("AttributeError")
              ELSE inner_exception(odata_exception, rest,
                     [b EXCEPT !.detailed_message =
                        Or(GetOr(ie, "message", JNull), b.detailed_message)])

\* _handle_odata_error, the branch of an application/problem+json body; www
\* is the WWW-Authenticate header, None when the response has none.
problem_json_error(errordata, www, base) ==
    IF Has(errordata, "exception")
      THEN LET odata_exception == errordata.v["exception"] IN
        IF odata_exception.t # "obj" THEN Crash("AttributeError")
        ELSE inner_exception(odata_exception, <<"innerexception", "innerException">>,
               [base EXCEPT
                  !.code = Or(GetOr(errordata, "errorId", JNull),
                              Or(GetOr(errordata, "type", JNull), base.code)),
                  !.detailed_message =
                      Or(GetOr(errordata, "detail", JNull), base.detailed_message),
                  !.message =
                      Or(GetOr(odata_exception, "message", JNull), base.message)])
      ELSE [base EXCEPT !.detailed_message =
              IF www = None THEN base.detailed_message ELSE JStr(www[1])]

\* ODataConnection._handle_odata_error: what it raises for `response`, or
\* NoError when it returns.
handle_odata_error(response) ==
    IF ~raise_for_status(response.status) THEN NoError
    ELSE
      LET base == [kind |-> "ODataError",
                   status_code |-> JStr("HTTP " \o ToString(response.status)),
                   code |-> DefaultCode, message |-> DefaultMessage,
                   detailed_message |-> DefaultDetail]
          response_ct == response.ct
      IN IF InCT("application/json", response_ct)
           THEN IF response.body.t = "invalid" THEN Crash("JSONDecodeError")
                ELSE odata_json_error(response.body, base)
         ELSE IF InCT("application/problem+json", response_ct)
           THEN IF response.body.t = "invalid" THEN Crash("JSONDecodeError")
                ELSE problem_json_error(response.body, response.www, base)
         ELSE [base EXCEPT !.detailed_message = JStr(response.text)]

Returned(verb, allow, response, value) ==
    [verb |-> verb, allow_plain_response |-> allow, response |-> response,
     outcome |-> "return", value |-> value, error |-> NoError]
Raised(verb, allow, response, error) ==
    [verb |-> verb, allow_plain_response |-> allow, response |-> response,
     outcome |-> "raise", value |-> [t |-> "None"], error |-> error]

PyNone == [t |-> "None"]
ParsedJson(response) == [t |-> "json", v |-> response.body]
RawText(response) == [t |-> "text", v |-> response.text]
UnsupportedContentType == Crash("UnsupportedContentType")
NoContent == 204

\* A faulty variant of execute_get that returns plain text whether or not the
\* caller allowed it.
execute_get_plain_always(response, allow_plain_response) ==
    LET e == handle_odata_error(response)
        R(v) == Returned("get", allow_plain_response, response, v)
        X(x) == Raised("get", allow_plain_response, response, x)
    IN IF response.fail THEN X(Crash("ODataConnectionError"))
       ELSE IF e.kind # "none" THEN X(e)
       ELSE IF response.status = NoContent THEN R(PyNone)
       ELSE IF InCT("application/json", response.ct)
         THEN IF response.body.t = "invalid" THEN X(Crash("JSONDecodeError"))
              ELSE R(ParsedJson(response))
       ELSE IF InCT("text/plain", response.ct) THEN R(RawText(response))
       ELSE X(UnsupportedContentType)

\* ODataConnection.execute_get for the server's answer `response`
\* (response.fail: the transport raised a RequestException instead).
execute_get(response, allow_plain_response) ==
    LET e == handle_odata_error(response)
        R(v) == Returned("get", allow_plain_response, response, v)
        X(x) == Raised("get", allow_plain_response, response, x)
    IN IF response.fail THEN X(Crash("ODataConnectionError"))
       ELSE IF e.kind # "none" THEN X(e)
       ELSE IF response.status = NoContent THEN R(PyNone)
       ELSE IF InCT("application/json", response.ct)
         THEN IF response.body.t = "invalid" THEN X(Crash("JSONDecodeError"))
              ELSE R(ParsedJson(response))
       ELSE IF InCT("text/plain", response.ct) /\ allow_plain_response
         THEN R(RawText(response))
       ELSE X(UnsupportedContentType)

\* ODataConnection.execute_post and execute_patch: the same dispatch without
\* a plain-text case and without an error for other content-types.
execute_write(verb, response) ==
    LET e == handle_odata_error(response)
        R(v) == Returned(verb, FALSE, response, v)
        X(x) == Raised(verb, FALSE, response, x)
    IN IF response.fail THEN X(Crash("ODataConnectionError"))
       ELSE IF e.kind # "none" THEN X(e)
       ELSE IF response.status = NoContent THEN R(PyNone)
       ELSE IF InCT("application/json", response.ct)
         THEN IF response.body.t = "invalid" THEN X(Crash("JSONDecodeError"))
              ELSE R(ParsedJson(response))
       ELSE R(PyNone)

execute_post(response) == execute_write("post", response)

execute_patch(response) == execute_write("patch", response)

\* ODataConnection.execute_delete: nothing is returned.
execute_delete(response) ==
    LET e == handle_odata_error(response)
    IN IF response.fail
         THEN Raised("delete", FALSE, response, Crash("ODataConnectionError"))
       ELSE IF e.kind # "none" THEN Raised("delete", FALSE, response, e)
       ELSE Returned("delete", FALSE, response, PyNone)

\* ------------------------------------------------ inputs of the transport
Absent == [t |-> "absent"]
\* What a server can send for an optional string field.
Vals(x) == {Absent, JNull, JStr(x)}

\* The JSON object with the keys of `pairs` (<<key, value>>) that are sent.
MkObj(pairs) ==
    LET present == {i \in 1..Len(pairs) : pairs[i][2].t # "absent"}
        at(k) == CHOOSE i \in present : pairs[i][1] = k
    IN JObj([k \in {pairs[i][1] : i \in present} |-> pairs[at(k)][2]])

InnerErrors ==
    {Absent, JNull}
    \cup {MkObj(<< <<"message", m>> >>) : m \in Vals("inner message")}
Details ==
    {Absent, JList(<<>>)}
    \cup {JList(<< MkObj(<< <<"code", c>>, <<"message", m>> >>) >>) :
            c \in Vals("dc"), m \in Vals("detail message")}
\* Bodies in the OData JSON error format.
ODataBodies ==
    {MkObj(<< <<"error", JNull>> >>)}
    \cup {MkObj(<< <<"error", MkObj(<< <<"code", c>>, <<"message", m>>,
                                      <<"innererror", ie>>, <<"details", d>> >>)>> >>) :
            c \in Vals("c"), m \in Vals("m"), ie \in InnerErrors, d \in Details}
InnerExceptions(x) == {Absent} \cup {MkObj(<< <<"message", m>> >>) : m \in Vals(x)}
Exceptions ==
    {Absent, JNull}
    \cup {MkObj(<< <<"message", m>>, <<"innerexception", l>>, <<"innerException", u>> >>) :
            m \in Vals("em"), l \in InnerExceptions("lower"),
            u \in InnerExceptions("upper")}
\* Bodies in the problem+json format.
ProblemBodies ==
    {MkObj(<< <<"type", ty>>, <<"errorId", id>>, <<"detail", d>>, <<"exception", x>> >>) :
        ty \in Vals("ty"), id \in Vals("eid"), d \in Vals("dt"), x \in Exceptions}
Invalid == [t |-> "invalid"]
ValueBody == MkObj(<< <<"value", JList(<<>>)>> >>)

ContentTypes ==
    {<<>>, <<"application/json">>, <<"application/json", "charset=utf-8">>,
     <<"application/problem+json">>, <<"text/plain">>, <<"text/html">>}
WWWAuthenticate == {None, Some("Bearer")}

Response(status, ct, www, body) ==
    [fail |-> FALSE, status |-> status, ct |-> ct, www |-> www,
     body |-> body, text |-> "raw text"]
Responses2xx ==
    {Response(st, ct, None, b) :
        st \in {200, 201, 204, 304}, ct \in ContentTypes, b \in {ValueBody, Invalid}}
ResponsesError ==
    {Response(st, ct, None, b) :
        st \in {404, 500}, ct \in ContentTypes, b \in {ValueBody, Invalid}}
    \cup {Response(404, ct, www, b) :
            ct \in ContentTypes, www \in WWWAuthenticate,
            b \in ODataBodies \cup ProblemBodies}
TransportFailure == [Response(200, <<>>, None, Invalid) EXCEPT !.fail = TRUE]
HttpResponses == Responses2xx \cup ResponsesError \cup {TransportFailure}

Pending(response) ==
    [verb |-> "", allow_plain_response |-> FALSE, response |-> response,
     outcome |-> "pending", value |-> PyNone, error |-> NoError]

\* The transport before a request whose answer will be `response`.
ConnInit ==
    /\ lists = <<>>
    /\ queries = <<QueryInitObject(TRUE)>>
    /\ entity = [pks |-> <<"Id">>, singleton |-> FALSE]
    /\ call = IdleCall
    /\ ncalls = 0
    /\ \E r \in HttpResponses : io = <<Pending(r)>>
    /\ NoConnections
    /\ ents = <<>>
    /\ marked = {}
    /\ out = <<>>

IsPending == Len(io) = 1 /\ io[1].outcome = "pending"

ExecuteGet(allow_plain_response) ==
    /\ IsPending
    /\ io' = <<execute_get(io[1].response, allow_plain_response)>>
    /\ UNCHANGED <<qvars, svars, hvars>>

ExecutePost ==
    /\ IsPending
    /\ io' = <<execute_post(io[1].response)>>
    /\ UNCHANGED <<qvars, svars, hvars>>

ExecutePatch ==
    /\ IsPending
    /\ io' = <<execute_patch(io[1].response)>>
    /\ UNCHANGED <<qvars, svars, hvars>>

ExecuteDelete ==
    /\ IsPending
    /\ io' = <<execute_delete(io[1].response)>>
    /\ UNCHANGED <<qvars, svars, hvars>>

ConnNext ==
    \/ \E a \in BOOLEAN : ExecuteGet(a)
    \/ ExecutePost
    \/ ExecutePatch
    \/ ExecuteDelete

\* One request through ODataConnection and its outcome.
ConnSpec == ConnInit /\ [][ConnNext]_vars

\* -------------------------------------------------- claims on the transport
Done == Len(io) = 1 /\ io[1].outcome # "pending" /\ ~io[1].response.fail
Is2xx(status) == 200 <= status /\ status < 300
IsHttpError(status) == 400 <= status /\ status < 600
\* The key is sent with a string value.
Present(o, k) == Has(o, k) /\ o.v[k].t = "str"

\* C7 as stated: for get, post and patch alike a 2xx response gives an
\* empty result for status 204, the parsed JSON for application/json, the
\* raw text for text/plain when the caller allowed it, and an
\* UnsupportedContentType error in every other case.
C7_AllVerbsRejectOtherContentTypes ==
    (Done /\ io[1].verb \in {"get", "post", "patch"}
          /\ Is2xx(io[1].response.status)) =>
      LET r == io[1].response IN
      IF r.status = 204
        THEN io[1].outcome = "return" /\ io[1].value = PyNone
      ELSE IF InCT("application/json", r.ct)
        THEN r.body.t = "obj" =>
               (io[1].outcome = "return" /\ io[1].value = ParsedJson(r))
      ELSE IF InCT("text/plain", r.ct) /\ io[1].allow_plain_response
        THEN io[1].outcome = "return" /\ io[1].value = RawText(r)
      ELSE io[1].outcome = "raise" /\ io[1].error.kind = "UnsupportedContentType"

\* C7, amended: a 2xx response gives an empty result for status 204 and the
\* parsed JSON for application/json with every verb; for any other
\* content-type get returns the raw text when it is text/plain and the caller
\* allowed it and fails with UnsupportedContentType otherwise, while post and
\* patch return an empty result and raise nothing.
C7_DispatchByStatusAndContentType ==
    (Done /\ io[1].verb \in {"get", "post", "patch"}
          /\ Is2xx(io[1].response.status)) =>
      LET r == io[1].response IN
      IF r.status = 204
        THEN io[1].outcome = "return" /\ io[1].value = PyNone
      ELSE IF InCT("application/json", r.ct)
        THEN r.body.t = "obj" =>
               (io[1].outcome = "return" /\ io[1].value = ParsedJson(r))
      ELSE IF io[1].verb = "get"
        THEN IF InCT("text/plain", r.ct) /\ io[1].allow_plain_response
               THEN io[1].outcome = "return" /\ io[1].value = RawText(r)
               ELSE io[1].outcome = "raise"
                    /\ io[1].error.kind = "UnsupportedContentType"
      ELSE io[1].outcome = "return" /\ io[1].value = PyNone

\* get of a text/plain body that the caller did not allow.
C7_Witness ==
    /\ Done /\ io[1].verb = "get" /\ ~io[1].allow_plain_response
    /\ io[1].response.status = 200
    /\ io[1].response.ct = <<"text/plain">>
    /\ io[1].outcome = "raise" /\ io[1].error.kind = "UnsupportedContentType"

\* C8: for a response that is not 2xx the operation returns nothing: it
\* raises one ODataError whose status_code, code, message and
\* detailed_message are strings, code and message being the placeholders
\* when an OData error object omits them or sends null.
C8_ErrorFieldsAreStrings ==
    (Done /\ ~Is2xx(io[1].response.status)) =>
      LET r == io[1].response
          e == io[1].error
      IN /\ io[1].outcome = "raise"
         /\ e.kind = "ODataError"
         /\ e.status_code.t = "str" /\ e.code.t = "str"
         /\ e.message.t = "str" /\ e.detailed_message.t = "str"
         /\ (InCT("application/json", r.ct) /\ r.body.t = "obj"
               /\ Has(r.body, "error") /\ r.body.v["error"].t = "obj") =>
              /\ ~Present(r.body.v["error"], "code") => e.code = DefaultCode
              /\ ~Present(r.body.v["error"], "message") => e.message = DefaultMessage

\* The message of the inner exception under key k of exception x, if sent.
InnerMessage(x, k) ==
    IF Has(x, k) /\ x.v[k].t = "obj" /\ Present(x.v[k], "message")
      THEN Some(x.v[k].v["message"]) ELSE None

\* The first value of a sequence of optional values that is there.
RECURSIVE FirstOf(_, _)
FirstOf(opts, default) ==
    IF Len(opts) = 0 THEN default
    ELSE IF opts[1] # None THEN opts[1][1]
    ELSE FirstOf(Tail(opts), default)

Field(o, k) == IF Present(o, k) THEN Some(o.v[k]) ELSE None

\* C9: for a 4xx or 5xx problem+json response code is errorId, else type,
\* else the placeholder, whether or not the body has an exception;
\* with an exception object message is its message and detailed_message an
\* inner exception's message, else detail; without an exception key
\* detailed_message is the WWW-Authenticate header, else the placeholder.
C9_ProblemJsonFields ==
    (Done /\ IsHttpError(io[1].response.status)
          /\ InCT("application/problem+json", io[1].response.ct)
          /\ ~InCT("application/json", io[1].response.ct)
          /\ io[1].response.body.t = "obj"
          /\ (Has(io[1].response.body, "exception") =>
                io[1].response.body.v["exception"].t = "obj")) =>
      LET b == io[1].response.body
          e == io[1].error
      IN /\ io[1].outcome = "raise" /\ e.kind = "ODataError"
         /\ e.code = FirstOf(<<Field(b, "errorId"), Field(b, "type")>>, DefaultCode)
         /\ Has(b, "exception") =>
              LET x == b.v["exception"] IN
              /\ e.message = FirstOf(<<Field(x, "message")>>, DefaultMessage)
              /\ e.detailed_message \in
                   {FirstOf(<<InnerMessage(x, "innerException"),
                              InnerMessage(x, "innerexception"),
                              Field(b, "detail")>>, DefaultDetail),
                    FirstOf(<<InnerMessage(x, "innerexception"),
                              InnerMessage(x, "innerException"),
                              Field(b, "detail")>>, DefaultDetail)}
         /\ ~Has(b, "exception") =>
              e.detailed_message =
                IF io[1].response.www = None THEN DefaultDetail
                ELSE JStr(io[1].response.www[1])

\* C10: for a 4xx or 5xx response with an OData JSON error object,
\* detailed_message is error.innererror.message when that is sent; otherwise,
\* also when an innererror object without a message is sent, and
\* error.details is a non-empty list, it is "(code): message" of details[0]
\* if that has a code and the detail's message alone if not.
C10_DetailsUsedWithoutInnerMessage ==
    (Done /\ IsHttpError(io[1].response.status)
          /\ InCT("application/json", io[1].response.ct)
          /\ io[1].response.body.t = "obj"
          /\ Has(io[1].response.body, "error")
          /\ io[1].response.body.v["error"].t = "obj"
          /\ io[1].outcome = "raise" /\ io[1].error.kind = "ODataError") =>
      LET err == io[1].response.body.v["error"]
          e == io[1].error
          inner == InnerMessage(err, "innererror")
          listed == /\ Has(err, "details") /\ err.v["details"].t = "list"
                    /\ Len(err.v["details"].v) > 0
          d == err.v["details"].v[1]
      IN /\ inner # None => e.detailed_message = inner[1]
         /\ (inner = None /\ listed /\ Present(d, "message")) =>
              e.detailed_message =
                IF Present(d, "code")
                  THEN JStr("(" \o d.v["code"].v \o "): " \o d.v["message"].v)
                  ELSE d.v["message"]

\* ------------------------------------------------------------ EntityState
\* What EntityState reads from an entity class: its type name, its
\* collection name (None for a class without a collection), its properties
\* in declaration order and its navigation properties in the order of
\* inspect.getmembers, which is the order of the attribute names.
Prop(name, pk, computed) ==
    [name |-> name, primary_key |-> pk, is_computed_value |-> computed]
Nav(name, coll, fk) ==
    [name |-> name, is_collection |-> coll, foreign_key |-> fk]

Classes ==
    [Order |-> [odata_type |-> "Demo.Order", collection |-> Some("Orders"),
                props |-> <<Prop("Id", TRUE, FALSE),
                            Prop("CustomerId", FALSE, FALSE),
                            Prop("Total", FALSE, TRUE)>>,
                navs |-> <<Nav("Customer", FALSE, Some("CustomerId")),
                           Nav("Items", TRUE, None)>>],
     Item  |-> [odata_type |-> "Demo.Item", collection |-> Some("Items"),
                props |-> <<Prop("Id", TRUE, FALSE)>>,
                navs |-> <<>>],
     Note  |-> [odata_type |-> "Demo.Note", collection |-> None,
                props |-> <<Prop("Id", TRUE, FALSE)>>,
                navs |-> <<>>],
     Line  |-> [odata_type |-> "Demo.Line", collection |-> Some("Lines"),
                props |-> <<Prop("OrderId", TRUE, FALSE),
                            Prop("No", TRUE, FALSE)>>,
                navs |-> <<>>]]

\* An empty Python dict.
EmptyDict == [k \in {} |-> None]

\* x in a Python list
InList(x, l) == \E i \in 1..Len(l) : l[i] = x

\* EntityState.__init__
EntityStateInit(cls) ==
    [cls |-> cls, dirty |-> <<>>, nav_cache |-> EmptyDict, data |-> EmptyDict,
     etag |-> None]

\* EntityState.__setitem__
setitem(es, key, value) == [es EXCEPT !.data = (key :> value) @@ @]

\* EntityState.reset
reset(es) == [es EXCEPT !.dirty = <<>>, !.nav_cache = EmptyDict]

\* A faulty variant of set_property_dirty that appends without looking.
set_property_dirty_always(es, name) == [es EXCEPT !.dirty = Append(@, name)]

\* EntityState.set_property_dirty
set_property_dirty(es, name) ==
    IF ~InList(name, es.dirty) THEN [es EXCEPT !.dirty = Append(@, name)]
    ELSE es

\* EntityState.properties, primary_key_properties, navigation_properties
\* and dirty_properties
properties(es) == Classes[es.cls].props
primary_key_properties(es) ==
    SelectSeq(properties(es), LAMBDA prop : prop.primary_key)
navigation_properties(es) == Classes[es.cls].navs
dirty_properties(es) ==
    SelectSeq(properties(es), LAMBDA prop : InList(prop.name, es.dirty))

\* prop.escape_value(value) followed by str(): the wire format of a key value.
escape_value(value) == IF value = None THEN "null" ELSE value[1]

\* EntityState.id: None, or the one-element sequence of the id string.
id(es) ==
    LET entity_name == Classes[es.cls].collection
        ids == SelectSeq(primary_key_properties(es),
                         LAMBDA prop : prop.name \in DOMAIN es.data)
        key_ids == [i \in 1..Len(ids) |->
                      ids[i].name \o "=" \o escape_value(es.data[ids[i].name])]
    IN IF entity_name = None THEN None
       ELSE IF Len(ids) = 1
         THEN Some(entity_name[1] \o "(" \o escape_value(es.data[ids[1].name]) \o ")")
       ELSE IF Len(ids) > 1
         THEN Some(entity_name[1] \o "(" \o Join(key_ids, ",") \o ")")
       ELSE None

\* EntityState._format_odata_bind_key
format_odata_bind_key(prop_name, require_slash) ==
    LET key == prop_name \o "@odata.bind"
    IN IF require_slash THEN "/" \o key ELSE key

\* getattr(entity, prop_name, None) of a navigation property: the related
\* entities the nav_cache holds for it, None when it holds none.
nav_value(es, prop) ==
    IF prop.name \in DOMAIN es.nav_cache THEN Some(es.nav_cache[prop.name])
    ELSE None

\* An OrderedDict is the sequence of its items in insertion order.
JDict(d) == [t |-> "dict", v |-> d]
DictHas(d, k) == \E i \in 1..Len(d) : d[i].key = k
DictIndex(d, k) == CHOOSE i \in 1..Len(d) : d[i].key = k
DictGet(d, k) == d[DictIndex(d, k)].val
DictSet(d, k, v) ==
    IF DictHas(d, k) THEN [d EXCEPT ![DictIndex(d, k)].val = v]
    ELSE Append(d, [key |-> k, val |-> v])
DictPop(d, k) == SelectSeq(d, LAMBDA item : item.key # k)
DictKeys(d) == {d[i].key : i \in 1..Len(d)}

\* The JSON value of a raw field value.
ToJson(value) == IF value = None THEN JNull ELSE JStr(value[1])
\* The JSON value of an id.
IdJson(i) == IF i = None THEN JNull ELSE JStr(i[1])

\* What a payload builder gives: the payload, or the KeyError it raised.
Ok(d) == [ok |-> TRUE, data |-> d]
KeyError == [ok |-> FALSE, data |-> <<>>]

\* _remove_null_properties
remove_null_properties(data) == SelectSeq(data, LAMBDA item : item.val.t # "null")

\* The server flags a payload is built for.
ServerFlags ==
    [provide_odata_type_annotation : BOOLEAN, skip_null_properties : BOOLEAN,
     odata_bind_requires_slash : BOOLEAN]

\* The first lines of both payload builders: the type annotation.
type_annotation(es, server_flags) ==
    IF server_flags.provide_odata_type_annotation
      THEN <<[key |-> "@odata.type", val |-> JStr(Classes[es.cls].odata_type)]>>
      ELSE <<>>

\* _clean_new_entity: the loop over the properties.
RECURSIVE insert_properties(_, _, _)
insert_properties(es, props, insert_data) ==
    IF Len(props) = 0 THEN Ok(insert_data)
    ELSE LET prop == Head(props) IN
      IF prop.is_computed_value
        THEN insert_properties(es, Tail(props), insert_data)
      ELSE IF prop.name \notin DOMAIN es.data THEN KeyError
      ELSE insert_properties(es, Tail(props),
             DictSet(insert_data, prop.name, ToJson(es.data[prop.name])))

\* _clean_new_entity: primary keys stay only if they have values.
RECURSIVE pop_null_keys(_, _)
pop_null_keys(pks, insert_data) ==
    IF Len(pks) = 0 THEN Ok(insert_data)
    ELSE LET pk_prop == Head(pks) IN
      IF ~DictHas(insert_data, pk_prop.name) THEN KeyError
      ELSE pop_null_keys(Tail(pks),
             IF DictGet(insert_data, pk_prop.name).t = "null"
               THEN DictPop(insert_data, pk_prop.name)
               ELSE insert_data)

\* _clean_new_entity: the members of a collection that are bound by their
\* id, and those that are embedded.
with_id(E, value) == SelectSeq(value, LAMBDA i : id(E[i]) # None)
without_id(E, value) == SelectSeq(value, LAMBDA i : id(E[i]) = None)

RECURSIVE clean_new_entity(_, _, _)
RECURSIVE embed(_, _, _)
RECURSIVE insert_navigations(_, _, _, _, _)

\* [self._clean_new_entity(i, server_flags) for i in members]
embed(E, members, server_flags) ==
    IF Len(members) = 0 THEN Ok(<<>>)
    ELSE LET first == clean_new_entity(E, Head(members), server_flags)
             rest == embed(E, Tail(members), server_flags)
         IN IF ~first.ok \/ ~rest.ok THEN KeyError
            ELSE Ok(<<JDict(first.data)>> \o rest.data)

\* _clean_new_entity: the loop over the navigation properties.
insert_navigations(E, e, navs, server_flags, insert_data) ==
    IF Len(navs) = 0 THEN Ok(insert_data)
    ELSE
      LET prop == Head(navs)
          popped == IF prop.foreign_key # None
                      THEN DictPop(insert_data, prop.foreign_key[1])
                      ELSE insert_data
          value == nav_value(E[e], prop)
          key == format_odata_bind_key(prop.name,
                                       server_flags.odata_bind_requires_slash)
      IN
      IF value = None
        THEN insert_navigations(E, e, Tail(navs), server_flags, popped)
      ELSE IF prop.is_collection
        THEN
          LET bound == with_id(E, value[1])
              binds == [i \in 1..Len(bound) |-> IdJson(id(E[bound[i]]))]
              withBinds == IF Len(binds) > 0
                             THEN DictSet(popped, key, JList(binds))
                             ELSE popped
              new_entities == embed(E, without_id(E, value[1]), server_flags)
          IN IF ~new_entities.ok THEN KeyError
             ELSE insert_navigations(E, e, Tail(navs), server_flags,
                    IF Len(new_entities.data) > 0
                      THEN DictSet(withBinds, prop.name, JList(new_entities.data))
                      ELSE withBinds)
      ELSE
        LET target == value[1][1] IN
        IF id(E[target]) # None
          THEN insert_navigations(E, e, Tail(navs), server_flags,
                 DictSet(popped, key, IdJson(id(E[target]))))
        ELSE
          LET nested == clean_new_entity(E, target, server_flags) IN
          IF ~nested.ok THEN KeyError
          ELSE insert_navigations(E, e, Tail(navs), server_flags,
                 DictSet(popped, prop.name, JDict(nested.data)))

\* EntityState._clean_new_entity for the entity E[e]
clean_new_entity(E, e, server_flags) ==
    LET es == E[e]
        scalars == insert_properties(es, properties(es),
                                     type_annotation(es, server_flags))
        keyed == IF scalars.ok
                   THEN pop_null_keys(primary_key_properties(es), scalars.data)
                   ELSE KeyError
        insert_data == IF keyed.ok
                         THEN insert_navigations(E, e, navigation_properties(es),
                                                 server_flags, keyed.data)
                         ELSE KeyError
    IN IF ~insert_data.ok THEN KeyError
       ELSE IF server_flags.skip_null_properties
         THEN Ok(remove_null_properties(insert_data.data))
       ELSE insert_data

\* EntityState.data_for_insert
data_for_insert(E, e, server_flags) == clean_new_entity(E, e, server_flags)

\* data_for_update: the loop over the dirty properties.
RECURSIVE update_properties(_, _, _)
update_properties(es, props, update_data) ==
    IF Len(props) = 0 THEN Ok(update_data)
    ELSE LET prop == Head(props) IN
      IF prop.is_computed_value
        THEN update_properties(es, Tail(props), update_data)
      ELSE IF prop.name \notin DOMAIN es.data THEN KeyError
      ELSE update_properties(es, Tail(props),
             DictSet(update_data, prop.name, ToJson(es.data[prop.name])))

\* data_for_update: the loop over the navigation properties.
RECURSIVE update_navigations(_, _, _, _, _)
update_navigations(E, e, navs, server_flags, update_data) ==
    IF Len(navs) = 0 THEN update_data
    ELSE
      LET prop == Head(navs)
          value == nav_value(E[e], prop)
          key == format_odata_bind_key(prop.name,
                                       server_flags.odata_bind_requires_slash)
      IN
      IF ~InList(prop.name, E[e].dirty) \/ value = None
        THEN update_navigations(E, e, Tail(navs), server_flags, update_data)
      ELSE IF prop.is_collection
        THEN update_navigations(E, e, Tail(navs), server_flags,
               DictSet(update_data, key,
                       JList([i \in 1..Len(value[1]) |-> IdJson(id(E[value[1][i]]))])))
      ELSE update_navigations(E, e, Tail(navs), server_flags,
             DictSet(update_data, key, IdJson(id(E[value[1][1]]))))

\* EntityState.data_for_update for the entity E[e]
data_for_update(E, e, server_flags) ==
    LET es == E[e]
        scalars == update_properties(es, dirty_properties(es),
                                     type_annotation(es, server_flags))
        update_data == update_navigations(E, e, navigation_properties(es),
                                          server_flags, scalars.data)
    IN IF ~scalars.ok THEN KeyError
       ELSE IF server_flags.skip_null_properties
         THEN Ok(remove_null_properties(update_data))
       ELSE Ok(update_data)

\* ------------------------------------------------ operations on the states
\* The values a field is assigned, and the sequences of at most n of S.
FieldValues == {None, Some("7")}
FieldNames(cls) ==
    {Classes[cls].props[i].name : i \in 1..Len(Classes[cls].props)}
SeqsUpTo(S, n) == UNION {[1..k -> S] : k \in 0..n}
\* The entity whose payloads are built, and the entities related to it.
Roots == {1}
Related == {2, 3}
\* The names set_property_dirty is called with.
DirtyNames == {"Id", "CustomerId", "Total", "Items"}

Idle ==
    /\ lists = <<>>
    /\ queries = <<QueryInitObject(TRUE)>>
    /\ entity = [pks |-> <<"Id">>, singleton |-> FALSE]
    /\ call = IdleCall
    /\ ncalls = 0
    /\ io = <<>>
    /\ NoConnections

\* Three entities as their constructors leave them.
InsertInit ==
    /\ Idle
    /\ ents = <<EntityStateInit("Order"), EntityStateInit("Item"),
                EntityStateInit("Note")>>
    /\ marked = {}
    /\ out = <<>>

\* An entity and two related entities whose keys have been assigned.
UpdateInit ==
    /\ Idle
    /\ ents = <<EntityStateInit("Order"),
                setitem(EntityStateInit("Item"), "Id", Some("7")),
                setitem(EntityStateInit("Note"), "Id", None)>>
    /\ marked = {}
    /\ out = <<>>

SetItem(e, key, value) ==
    /\ ents' = [ents EXCEPT ![e] = setitem(@, key, value)]
    /\ out' = <<>>
    /\ UNCHANGED <<qvars, hvars, io, marked>>

\* Assigning related entities to a navigation property fills its nav_cache
\* entry.
SetNavigation(e, name, value) ==
    /\ ents' = [ents EXCEPT ![e].nav_cache = (name :> value) @@ @]
    /\ out' = <<>>
    /\ UNCHANGED <<qvars, hvars, io, marked>>

SetPropertyDirty(e, name) ==
    /\ ents' = [ents EXCEPT ![e] = set_property_dirty(@, name)]
    /\ marked' = marked \cup {name}
    /\ out' = <<>>
    /\ UNCHANGED <<qvars, hvars, io>>

Reset(e) ==
    /\ ents' = [ents EXCEPT ![e] = reset(@)]
    /\ marked' = {}
    /\ out' = <<[op |-> "reset", self |-> e]>>
    /\ UNCHANGED <<qvars, hvars, io>>

DataForInsert(e, server_flags) ==
    /\ out' = <<[op |-> "data_for_insert", self |-> e,
                 server_flags |-> server_flags,
                 ret |-> data_for_insert(ents, e, server_flags)]>>
    /\ UNCHANGED <<qvars, hvars, io, ents, marked>>

DataForUpdate(e, server_flags) ==
    /\ out' = <<[op |-> "data_for_update", self |-> e,
                 server_flags |-> server_flags,
                 ret |-> data_for_update(ents, e, server_flags)]>>
    /\ UNCHANGED <<qvars, hvars, io, ents, marked>>

InsertNext ==
    \/ \E e \in Roots \cup Related, v \in FieldValues :
         \E k \in FieldNames(ents[e].cls) : SetItem(e, k, v)
    \/ \E e \in Roots, m \in SeqsUpTo(Related, MaxMembers) :
         SetNavigation(e, "Items", m)
    \/ \E e \in Roots, m \in Related : SetNavigation(e, "Customer", <<m>>)
    \/ \E e \in Roots, f \in ServerFlags : DataForInsert(e, f)

\* Entities being filled in and serialised for a POST.
InsertSpec == InsertInit /\ [][InsertNext]_vars

UpdateNext ==
    \/ \E e \in Roots, v \in FieldValues :
         \E k \in FieldNames(ents[e].cls) : SetItem(e, k, v)
    \/ \E e \in Roots, m \in SeqsUpTo(Related, MaxMembers) :
         SetNavigation(e, "Items", m)
    \/ \E e \in Roots, n \in DirtyNames : SetPropertyDirty(e, n)
    \/ \E e \in Roots : Reset(e)
    \/ \E e \in Roots, f \in ServerFlags : DataForUpdate(e, f)

\* An entity being changed, marked, reset and serialised for a PATCH.
UpdateSpec == UpdateInit /\ [][UpdateNext]_vars

\* ----------------------------------------------- claims on the EntityState
Inserted ==
    /\ Len(out) = 1 /\ out[1].op = "data_for_insert" /\ out[1].ret.ok
    /\ "Items" \in DOMAIN ents[out[1].self].nav_cache

\* An entity has key values when its class has a collection and every
\* primary key has been given a value that is not null.
HasKeyValues(es) ==
    /\ Classes[es.cls].collection # None
    /\ \A i \in 1..Len(primary_key_properties(es)) :
         LET name == primary_key_properties(es)[i].name
         IN name \in DOMAIN es.data /\ es.data[name] # None

\* C5: in an insert payload every member of the collection Items appears
\* once: by its id in the array under the bind key if it has an id, that is
\* if all its keys have values, and by its nested insert payload in the
\* array under 'Items' if it has none; neither key has an empty array and
\* the bind key comes first.
C5_MembersPartitioned ==
    Inserted =>
      LET members == ents[out[1].self].nav_cache["Items"]
          d == out[1].ret.data
          bindkey == IF out[1].server_flags.odata_bind_requires_slash
                       THEN "/Items@odata.bind" ELSE "Items@odata.bind"
          persisted == SelectSeq(members, LAMBDA i : HasKeyValues(ents[i]))
          fresh == SelectSeq(members, LAMBDA i : ~HasKeyValues(ents[i]))
      IN /\ DictHas(d, bindkey) <=> Len(persisted) > 0
         /\ DictHas(d, bindkey) =>
              /\ DictGet(d, bindkey).t = "list"
              /\ Len(DictGet(d, bindkey).v) = Len(persisted)
              /\ \A i \in 1..Len(persisted) :
                   DictGet(d, bindkey).v[i] = IdJson(id(ents[persisted[i]]))
         /\ DictHas(d, "Items") <=> Len(fresh) > 0
         /\ DictHas(d, "Items") =>
              /\ DictGet(d, "Items").t = "list"
              /\ Len(DictGet(d, "Items").v) = Len(fresh)
              /\ \A i \in 1..Len(fresh) : DictGet(d, "Items").v[i].t = "dict"
         /\ (DictHas(d, bindkey) /\ DictHas(d, "Items")) =>
              DictIndex(d, bindkey) < DictIndex(d, "Items")

Updated == Len(out) = 1 /\ out[1].op = "data_for_update" /\ out[1].ret.ok

\* The keys of a payload that name a property of the entity's class.
ScalarKeys(es, d) == DictKeys(d) \cap FieldNames(es.cls)

\* The non-computed properties of the class that are in dirty.
DirtyFields(es) ==
    {p \in FieldNames(es.cls) :
       /\ InList(p, es.dirty)
       /\ \E i \in 1..Len(properties(es)) :
            properties(es)[i].name = p /\ ~properties(es)[i].is_computed_value}

\* dirty has no name twice and has exactly the names marked since the last
\* reset, and reset leaves dirty and nav_cache empty.
DirtyIsMarked ==
    LET es == ents[1] IN
    /\ \A i, j \in 1..Len(es.dirty) : es.dirty[i] = es.dirty[j] => i = j
    /\ {es.dirty[i] : i \in 1..Len(es.dirty)} = marked
    /\ (Len(out) = 1 /\ out[1].op = "reset") =>
         (es.dirty = <<>> /\ DOMAIN es.nav_cache = {})

\* C6 as stated: dirty has each name at most once and exactly the names
\* marked since the last reset, reset leaves dirty and nav_cache empty, and
\* the scalar fields of an update payload are exactly the non-computed
\* fields in dirty.
C6_PayloadHasEveryDirtyField ==
    /\ DirtyIsMarked
    /\ Updated => ScalarKeys(ents[1], out[1].ret.data) = DirtyFields(ents[1])

\* C6, amended: the same, except that with the server flag
\* skip_null_properties the scalar fields of an update payload are the
\* non-computed fields in dirty whose value is not null.
C6_PayloadHasDirtyFields ==
    /\ DirtyIsMarked
    /\ Updated =>
         ScalarKeys(ents[1], out[1].ret.data) =
           {p \in DirtyFields(ents[1]) :
              ~(out[1].server_flags.skip_null_properties
                  /\ ents[1].data[p] = None)}

\* An update payload without nulls of an entity whose null key, assigned
\* field and computed field were all marked, one of them twice.
C6_Witness ==
    /\ Updated
    /\ out[1].server_flags.skip_null_properties
    /\ ents[1].dirty = <<"Total", "Id", "CustomerId">>
    /\ ents[1].data["Id"] = None
    /\ ents[1].data["CustomerId"] = Some("7")
    /\ ScalarKeys(ents[1], out[1].ret.data) = {"CustomerId"}

\* --------------------------------------------------------- the id property
\* The values a key is assigned.
KeyValuesOrNone == {None, Some("7"), Some("8")}

\* An entity with one key, one with two keys and one without a collection.
IdInit ==
    /\ Idle
    /\ ents = <<EntityStateInit("Item"), EntityStateInit("Line"),
                EntityStateInit("Note")>>
    /\ marked = {}
    /\ out = <<>>

ReadId(e) ==
    /\ out' = <<[op |-> "id", self |-> e, ret |-> id(ents[e])]>>
    /\ UNCHANGED <<qvars, hvars, io, ents, marked>>

IdNext ==
    \/ \E e \in 1..Len(ents), v \in KeyValuesOrNone :
         \E k \in FieldNames(ents[e].cls) : SetItem(e, k, v)
    \/ \E e \in 1..Len(ents) : ReadId(e)

\* Entities whose keys are assigned and whose id is read.
IdSpec == IdInit /\ [][IdNext]_vars

\* C11: the id of an entity of a class with a collection is
\* 'Collection(value)' for one primary key and 'Collection(k1=v1,k2=v2)'
\* for two, and it is None whenever some primary key has no value, also
\* when only one of two keys has one.
C11_IdNeedsEveryKey ==
    (Len(out) = 1 /\ out[1].op = "id"
       /\ Classes[ents[out[1].self].cls].collection # None) =>
      LET es == ents[out[1].self]
          coll == Classes[es.cls].collection[1]
          pks == primary_key_properties(es)
          val(i) == es.data[pks[i].name][1]
      IN IF ~HasKeyValues(es) THEN out[1].ret = None
         ELSE IF Len(pks) = 1
           THEN out[1].ret = Some(coll \o "(" \o val(1) \o ")")
         ELSE out[1].ret =
                Some(coll \o "(" \o pks[1].name \o "=" \o val(1) \o ","
                          \o pks[2].name \o "=" \o val(2) \o ")")

\* ------------------------------------------------- the compound-expand mode
\* C12: every query derived by builder calls has the compound-expand mode of
\* the query it was derived from, and expand("A/B/C") adds
\* "A($expand=B($expand=C))" with the mode on and "A/B/C" with the mode
\* off, also when it is called on a query that other builders returned.
C12_ExpandModeInherited ==
    /\ \A q \in 1..Len(queries) :
         queries[q].compound_expand = queries[1].compound_expand
    /\ call.op = "expand" =>
         LET added == SeqGet(lists, queries[call.ret], "expand")
         IN added[Len(added)] =
              IF queries[1].compound_expand
                THEN "A($expand=B($expand=C))" ELSE "A/B/C"

\* --------------------------------------------------- connection headers
\* dict.update: the keys of other are added to d or replace its values.
dict_update(d, other) == other @@ d

\* A header dict that is given and is not empty.
GivenHeaders(extra_headers) ==
    extra_headers # None /\ DOMAIN extra_headers[1] # {}

\* The extra_headers given to a constructor, and to one call.
InstanceHeaders ==
    {None, Some(EmptyDict), Some([h \in {"Authorization"} |-> "token"]),
     Some([h \in {"Accept"} |-> "text/plain"])}
CallHeaders == {None, Some([h \in {"If-Match"} |-> "etag"])}

\* The class as the module defines it, before any instance exists.
HeaderInit ==
    /\ lists = <<>>
    /\ queries = <<QueryInitObject(TRUE)>>
    /\ entity = [pks |-> <<"Id">>, singleton |-> FALSE]
    /\ call = IdleCall
    /\ ncalls = 0
    /\ io = <<>>
    /\ ents = <<>>
    /\ marked = {}
    /\ out = <<>>
    /\ NoConnections

\* ODataConnection.__init__: self.base_headers is the class attribute, no
\* instance has one of its own.
Construct(extra_headers) ==
    /\ Len(conns) < MaxConnections
    /\ conns' = Append(conns, [extra_headers |-> extra_headers])
    /\ base_headers' = IF GivenHeaders(extra_headers)
                         THEN dict_update(base_headers, extra_headers[1])
                         ELSE base_headers
    /\ UNCHANGED <<qvars, io, svars, last_request>>

\* The headers execute_get builds for its request.
request_headers(base, extra_headers) ==
    LET headers == dict_update(EmptyDict, base)
    IN IF GivenHeaders(extra_headers)
         THEN dict_update(headers, extra_headers[1])
         ELSE headers

\* execute_get through the instance c, up to the request it sends.
Request(c, extra_headers) ==
    /\ last_request' = <<[conn |-> c, extra_headers |-> extra_headers,
                          headers |-> request_headers(base_headers, extra_headers)]>>
    /\ UNCHANGED <<qvars, io, svars, base_headers, conns>>

HeaderNext ==
    \/ \E x \in InstanceHeaders : Construct(x)
    \/ \E c \in 1..Len(conns), x \in CallHeaders : Request(c, x)

\* Connections being constructed and used for requests.
HeaderSpec == HeaderInit /\ [][HeaderNext]_vars

\* C13: a request made through a connection that was constructed without
\* extra headers carries exactly the three base headers and the extra
\* headers of the call, whatever other connections were constructed.
C13_NoHeaderFromOtherInstance ==
    (Len(last_request) = 1
       /\ ~GivenHeaders(conns[last_request[1].conn].extra_headers)) =>
      last_request[1].headers =
        IF last_request[1].extra_headers = None THEN BaseHeaders
        ELSE last_request[1].extra_headers[1] @@ BaseHeaders

\* ------------------------------------------------------ loading an entity
\* EntityState.persisted
persisted(es) == es.etag # None

\* EntityState.update
update(es, other) ==
    [es EXCEPT !.data = dict_update(@, other),
               !.etag = IF "@odata.etag" \in DOMAIN other
                          THEN other["@odata.etag"] ELSE None]

\* The raw field mappings an entity is loaded with.
LoadMappings ==
    {EmptyDict,
     [k \in {"Id"} |-> Some("7")],
     [k \in {"@odata.etag"} |-> Some("W1")],
     [k \in {"Id", "@odata.etag"} |-> IF k = "Id" THEN Some("7") ELSE Some("W1")]}

\* A new entity with its fields assigned null and two related entities as
\* their constructors leave them.
LoadInit ==
    /\ Idle
    /\ ents = <<setitem(setitem(EntityStateInit("Order"), "Id", None),
                        "CustomerId", None),
                EntityStateInit("Item"), EntityStateInit("Note")>>
    /\ marked = {}
    /\ out = <<>>

Update(e, other) ==
    /\ ents' = [ents EXCEPT ![e] = update(@, other)]
    /\ out' = <<[op |-> "update", self |-> e, other |-> other, pre |-> ents[e]]>>
    /\ UNCHANGED <<qvars, hvars, io, marked>>

LoadNext ==
    \/ \E e \in Related, v \in FieldValues : SetItem(e, "Id", v)
    \/ \E e \in Related, other \in LoadMappings : Update(e, other)
    \/ \E e \in Roots, m \in Related : SetNavigation(e, "Customer", <<m>>)
    \/ \E e \in Roots, f \in ServerFlags : DataForInsert(e, f)

\* Related entities being assigned, loaded and referred to by an entity
\* that is serialised for a POST.
LoadSpec == LoadInit /\ [][LoadNext]_vars

\* C14: after update(other) data is the mapping other; etag is the
\* mapping's @odata.etag when it has one, and when it has none etag and
\* persisted are what they were before the call.
C14_UpdateReplacesData ==
    (Len(out) = 1 /\ out[1].op = "update") =>
      LET es == ents[out[1].self]
          other == out[1].other
          pre == out[1].pre
      IN /\ es.data = other
         /\ "@odata.etag" \in DOMAIN other => es.etag = other["@odata.etag"]
         /\ "@odata.etag" \notin DOMAIN other =>
              (es.etag = pre.etag /\ persisted(es) = persisted(pre))

\* C16: in an insert payload the single related entity Customer is bound,
\* its id under the bind key and no 'Customer' key, exactly when it is
\* persisted, and embedded, its nested insert payload under 'Customer' and
\* no bind key, exactly when it is not, a new entity with a key assigned by
\* the client included.
C16_BoundIffPersisted ==
    (Len(out) = 1 /\ out[1].op = "data_for_insert" /\ out[1].ret.ok
       /\ "Customer" \in DOMAIN ents[out[1].self].nav_cache) =>
      LET related == ents[ents[out[1].self].nav_cache["Customer"][1]]
          d == out[1].ret.data
          bindkey == IF out[1].server_flags.odata_bind_requires_slash
                       THEN "/Customer@odata.bind" ELSE "Customer@odata.bind"
      IN IF persisted(related)
           THEN /\ DictHas(d, bindkey) /\ ~DictHas(d, "Customer")
                /\ DictGet(d, bindkey) = IdJson(id(related))
           ELSE /\ DictHas(d, "Customer") /\ ~DictHas(d, bindkey)
                /\ DictGet(d, "Customer").t = "dict"

\* ------------------------------------------- results without a value array
\* C15: when the GET of all() is answered by a result without a value
\* array, the empty result of a 204 response included, the iteration ends
\* without raising and all() returns one entity for a singleton entity
\* type and none otherwise.
C15_NoValueArrayEndsQuietly ==
    (call.op = "all" /\ call.phase = "done" /\ Len(call.responses) = 1
       /\ \/ call.responses[1].kind = "None"
          \/ call.responses[1].kind = "json" /\ ~call.responses[1].hasValue) =>
      /\ call.outcome = "ok"
      /\ Len(call.result) = IF entity.singleton THEN 1 ELSE 0

====
